---- MODULE Spec2Model ----
(***************************************************************************)
(* The Spirit Box: session orchestrator (App), AudioGraphManager,          *)
(* entropy gate, LLM and TTS services, speech-recognition hook.            *)
(*                                                                         *)
(* Numbers: gains and entropy values are kept in hundredths (0.45 -> 45).  *)
(* React: a state update and the re-render that follows it are one step;   *)
(* the effects of App run at the end of every step (RunEffects).           *)
(* Awaits that only wait for a microtask (initialize(), applyGhostEffects) *)
(* are part of the step that reaches them; awaits on the network, on       *)
(* AudioContext.resume() and on timers are separate steps.                 *)
(***************************************************************************)
EXTENDS Integers, Sequences, FiniteSets, TLC

\* ---------------------------------------------------------------- bounds
\* The number of user and environment events of one run: clicks on Start and
\* End, text submissions, speech results and restart-timer expiries.  The
\* steps these events cause (promise resolutions, timers of a turn, engine
\* callbacks) are not counted.
MaxEvents == 5

\* The clock ticks at most MaxTicks times.
MaxTicks == 2

\* Buffers of 0, 50, ... 50 * MaxBufferSteps milliseconds.
MaxBufferSteps == 60

\* ------------------------------------------------------------- constants
Null == 0
NullEntropy == -1
NOISE_GAIN == 30
SIDECHAIN_AMOUNT == 30
PRESENCE_THRESHOLD == 45
DEBUG_VALUE == 85
MASTER_INITIAL == 100
MASTER_FORCED == 80
SILENCE_SECONDS == 2
RAMP_TIME == 10
PLAYBACK_RATE == 85

\* Every turn, handleStart call and context takes an event, so none of
\* these index sets is ever exhausted.
Turns == 1..MaxEvents
Starts == 1..MaxEvents
Contexts == 1..MaxEvents

SessionStatus == {"inactive", "active", "processing", "responding"}

\* -------------------------------------------------------- platform audio
\* One entry per AudioContext ever created: its state, how often the LFO of
\* its graph was started / stopped, the noise gain, its pending ramp target
\* and the time from the call to the end of that ramp, and the master gain.
\* The connections setupNodes() makes, as pairs <<from, to>>.
NoiseEdges ==
  { <<"lfo", "lfoGain">>, <<"lfoGain", "filter.frequency">>,
    <<"noise", "filter">>, <<"filter", "noiseGain">>,
    <<"noiseGain", "masterGain">>, <<"masterGain", "analyser">>,
    <<"analyser", "destination">> }

\* The connections applyGhostEffects() makes for one voice.
VoiceEdges ==
  { <<"source", "lowPass">>, <<"lowPass", "distortion">>,
    <<"distortion", "convolver">>, <<"convolver", "wetGain">>,
    <<"wetGain", "destination">>,
    <<"lowPass", "dryGain">>, <<"dryGain", "destination">> }

FreshContext ==
  [state |-> "suspended", edges |-> NoiseEdges, lfoStarts |-> 0, lfoStops |-> 0,
   noiseGain |-> NOISE_GAIN, rampTarget |-> NullEntropy,
   rampAfter |-> NullEntropy, masterGain |-> MASTER_INITIAL]

NoContext ==
  [state |-> "none", edges |-> {}, lfoStarts |-> 0, lfoStops |-> 0,
   noiseGain |-> NullEntropy, rampTarget |-> NullEntropy,
   rampAfter |-> NullEntropy, masterGain |-> NullEntropy]

\* audioContext.close(): the context and its graph are released; nothing of
\* them is observable afterwards.
ClosedContext == [NoContext EXCEPT !.state = "closed"]

FreeContexts(w) == {c \in Contexts : w[c].state = "none"}

NewContextId(w) == CHOOSE c \in FreeContexts(w) : \A d \in FreeContexts(w) : c <= d

\* ----------------------------------------------------- AudioGraphManager
ManagerInit ==
  [audioContext |-> Null, noiseNode |-> Null, filterNode |-> Null,
   lfoNode |-> Null, lfoGainNode |-> Null, noiseGainNode |-> Null,
   masterGainNode |-> Null, analyserNode |-> Null, isRunning |-> FALSE]

\* A setupNodes() that creates no analyser; property C33_NodesIffContext does
\* not survive it.
SetupNodesWithoutAnalyser(m) ==
  IF m.audioContext = Null THEN m
  ELSE [m EXCEPT !.noiseNode = m.audioContext, !.filterNode = m.audioContext,
                 !.lfoNode = m.audioContext, !.lfoGainNode = m.audioContext,
                 !.noiseGainNode = m.audioContext,
                 !.masterGainNode = m.audioContext]

\* setupNodes(): every node of the graph is created on the current context.
SetupNodes(m) ==
  IF m.audioContext = Null THEN m
  ELSE [m EXCEPT !.noiseNode = m.audioContext, !.filterNode = m.audioContext,
                 !.lfoNode = m.audioContext, !.lfoGainNode = m.audioContext,
                 !.noiseGainNode = m.audioContext,
                 !.masterGainNode = m.audioContext,
                 !.analyserNode = m.audioContext]

\* An initialize() without the early return; property
\* C21_InitializeIdempotent does not survive it.
InitializeAlwaysCreates(m, w) ==
  LET c == NewContextId(w)
  IN [m |-> SetupNodes([m EXCEPT !.audioContext = c]),
      w |-> [w EXCEPT ![c] = FreshContext]]

\* initialize(): returns the manager and the platform after the call.
Initialize(m, w) ==
  IF m.audioContext # Null THEN [m |-> m, w |-> w]
  ELSE LET c == NewContextId(w)
       IN [m |-> SetupNodes([m EXCEPT !.audioContext = c]),
           w |-> [w EXCEPT ![c] = FreshContext]]

\* A startSession() without the isRunning guard; property
\* C18_OscillatorStartedOnce does not survive it.
StartSessionTailUnguarded(m, w) ==
  LET w1 == IF m.masterGainNode # Null
            THEN [w EXCEPT ![m.masterGainNode].masterGain = MASTER_FORCED]
            ELSE w
  IN IF m.lfoNode # Null
     THEN [m |-> [m EXCEPT !.isRunning = TRUE],
           w |-> [w1 EXCEPT ![m.lfoNode].lfoStarts = @ + 1]]
     ELSE [m |-> m, w |-> w1]

\* startSession() from the line after the resume() await to its end.
StartSessionTail(m, w) ==
  LET w1 == IF m.masterGainNode # Null
            THEN [w EXCEPT ![m.masterGainNode].masterGain = MASTER_FORCED]
            ELSE w
  IN IF m.lfoNode # Null /\ ~m.isRunning
     THEN [m |-> [m EXCEPT !.isRunning = TRUE],
           w |-> [w1 EXCEPT ![m.lfoNode].lfoStarts = @ + 1]]
     ELSE [m |-> m, w |-> w1]

\* A stopSession() that leaves isRunning set; property
\* C19_StopReleasesEverything does not survive it.
StopSessionLeavesRunning(m, w) ==
  [m |-> [ManagerInit EXCEPT !.isRunning = m.isRunning],
   w |-> IF m.audioContext # Null
         THEN [w EXCEPT ![m.audioContext] = ClosedContext]
         ELSE w]

\* A stopSession() that closes the context but keeps its handle; property
\* C3_StopLeavesInactiveNoContext does not survive it.
StopSessionKeepsHandle(m, w) ==
  [m |-> [m EXCEPT !.isRunning = FALSE],
   w |-> IF m.audioContext # Null
         THEN [w EXCEPT ![m.audioContext] = ClosedContext]
         ELSE w]

StopSession(m, w) ==
  LET w1 == IF m.lfoNode # Null /\ m.isRunning
            THEN [w EXCEPT ![m.lfoNode].lfoStops = @ + 1]
            ELSE w
      w2 == IF m.audioContext # Null
            THEN [w1 EXCEPT ![m.audioContext] = ClosedContext]
            ELSE w1
  IN [m |-> [ManagerInit EXCEPT !.isRunning =
                IF m.lfoNode # Null /\ m.isRunning THEN FALSE ELSE m.isRunning],
      w |-> w2]

GetAudioContext(m) == m.audioContext

GetAnalyserNode(m) == m.analyserNode

DuckTarget(duck) == IF duck THEN SIDECHAIN_AMOUNT ELSE NOISE_GAIN

\* A duckNoise() that assigns gain.value; property C15_DuckOnlySchedulesRamp
\* does not survive it.
DuckNoiseSetsValue(m, w, duck) ==
  IF m.noiseGainNode # Null
  THEN [w EXCEPT ![m.noiseGainNode].noiseGain = DuckTarget(duck)]
  ELSE w

\* A duckNoise() that builds a context when the manager holds none; property
\* C34_NoGraphNoEffect does not survive it.
DuckNoiseBuildsContext(m, w, duck) ==
  IF m.noiseGainNode # Null
  THEN [w EXCEPT ![m.noiseGainNode].rampTarget = DuckTarget(duck),
                 ![m.noiseGainNode].rampAfter = RAMP_TIME]
  ELSE [w EXCEPT ![NewContextId(w)] = FreshContext]

\* duckNoise(): linearRampToValueAtTime(targetGain, currentTime + 0.1).
DuckNoise(m, w, duck) ==
  IF m.noiseGainNode # Null
  THEN [w EXCEPT ![m.noiseGainNode].rampTarget = DuckTarget(duck),
                 ![m.noiseGainNode].rampAfter = RAMP_TIME]
  ELSE w

GetMasterGainNode(m) == m.masterGainNode

Min(a, b) == IF a < b THEN a ELSE b

Max(a, b) == IF a > b THEN a ELSE b

\* A setNoiseVolume() without the clamp; property C17_VolumeIsClamped does not
\* survive it.
SetNoiseVolumeUnclamped(m, w, level) ==
  IF m.noiseGainNode # Null
  THEN [w EXCEPT ![m.noiseGainNode].noiseGain = level]
  ELSE w

\* setNoiseVolume(level): gain.value = Math.max(0, Math.min(1, level)).
SetNoiseVolume(m, w, level) ==
  IF m.noiseGainNode # Null
  THEN [w EXCEPT ![m.noiseGainNode].noiseGain = Max(0, Min(100, level))]
  ELSE w

\* ------------------------------------------------- SpectralEntropyService

\* calculateEntropyFromStorms(): baseline 0.3, plus the weighted storm
\* factors (boost, at most 0.15 + 0.02 + 0.15), plus Math.random() * 0.5
\* (variation), clamped to [0, 1].
CalculateEntropyFromStorms(boost, variation) ==
  Max(0, Min(100, 30 + boost + variation))

\* A getSpectralReading() that queries a second time after a failure;
\* property C11_FailedQueryFallsBack does not survive it.
GetSpectralReadingRetries(debugMode, fetch) ==
  IF debugMode
  THEN [value |-> DEBUG_VALUE, source |-> "debug_override", queries |-> 0]
  ELSE IF fetch.ok
       THEN [value |-> CalculateEntropyFromStorms(fetch.boost, fetch.variation),
             source |-> "nasa_donki", queries |-> 1]
       ELSE [value |-> fetch.random, source |-> "random_fallback",
             queries |-> 2]

\* A getSpectralReading() that does not look at debugMode; property
\* C12_DebugModeBypassesQuery does not survive it.
GetSpectralReadingIgnoresDebug(debugMode, fetch) ==
  IF fetch.ok
  THEN [value |-> CalculateEntropyFromStorms(fetch.boost, fetch.variation),
        source |-> "nasa_donki", queries |-> 1]
  ELSE [value |-> fetch.random, source |-> "random_fallback", queries |-> 1]

\* getSpectralReading(): fetch is the outcome of the single DONKI query (ok:
\* fetched, success status, payload parsed); queries counts the fetch() calls
\* the reading took.
GetSpectralReading(debugMode, fetch) ==
  IF debugMode
  THEN [value |-> DEBUG_VALUE, source |-> "debug_override", queries |-> 0]
  ELSE IF fetch.ok
       THEN [value |-> CalculateEntropyFromStorms(fetch.boost, fetch.variation),
             source |-> "nasa_donki", queries |-> 1]
       ELSE [value |-> fetch.random, source |-> "random_fallback",
             queries |-> 1]

\* ------------------------------------------------------------ EntropyGate
\* A gate with an exclusive boundary; property C10_GateInclusiveThreshold does
\* not survive it.
ShouldGhostRespondExclusive(reading) ==
  [respond |-> reading.value > PRESENCE_THRESHOLD, reading |-> reading]

ShouldGhostRespond(reading) ==
  [respond |-> reading.value >= PRESENCE_THRESHOLD, reading |-> reading]

\* ------------------------------------------------------------- LLMService
fallbacks ==
  << "The veil... is too thick...",
     "Gears... turning... in darkness...",
     "Who calls to the workshop?",
     "Steam... I remember steam...",
     "The machine... never stops...",
     "Cold... so cold here...",
     "Cannot... reach... through..." >>

FallbackStrings == {fallbacks[i] : i \in 1..Len(fallbacks)}

\* fallbacks[Math.floor(Math.random() * fallbacks.length)], draw in 0..99.
GetFallbackResponse(draw) == fallbacks[((draw * Len(fallbacks)) \div 100) + 1]

\* The characters of each fallback string.
fallbackChars ==
  << <<"T", "h", "e", " ", "v", "e", "i", "l", ".", ".", ".", " ", "i",
        "s", " ", "t", "o", "o", " ", "t", "h", "i", "c", "k", ".", ".",
        ".">>,
     <<"G", "e", "a", "r", "s", ".", ".", ".", " ", "t", "u", "r", "n",
        "i", "n", "g", ".", ".", ".", " ", "i", "n", " ", "d", "a", "r", "k",
        "n", "e", "s", "s", ".", ".", ".">>,
     <<"W", "h", "o", " ", "c", "a", "l", "l", "s", " ", "t", "o", " ",
        "t", "h", "e", " ", "w", "o", "r", "k", "s", "h", "o", "p", "?">>,
     <<"S", "t", "e", "a", "m", ".", ".", ".", " ", "I", " ", "r", "e",
        "m", "e", "m", "b", "e", "r", " ", "s", "t", "e", "a", "m", ".", ".",
        ".">>,
     <<"T", "h", "e", " ", "m", "a", "c", "h", "i", "n", "e", ".", ".",
        ".", " ", "n", "e", "v", "e", "r", " ", "s", "t", "o", "p", "s", ".",
        ".", ".">>,
     <<"C", "o", "l", "d", ".", ".", ".", " ", "s", "o", " ", "c", "o",
        "l", "d", " ", "h", "e", "r", "e", ".", ".", ".">>,
     <<"C", "a", "n", "n", "o", "t", ".", ".", ".", " ", "r", "e", "a",
        "c", "h", ".", ".", ".", " ", "t", "h", "r", "o", "u", "g", "h", ".",
        ".", ".">> >>

\* The characters of a string generateResponse() can fall back to.
CharsOf(text) ==
  fallbackChars[CHOOSE i \in 1..Len(fallbacks) : fallbacks[i] = text]

UpperCase == <<"A", "B", "C", "D", "E", "F", "G", "H", "I", "J", "K", "L", "M",
             "N", "O", "P", "Q", "R", "S", "T", "U", "V", "W", "X", "Y", "Z">>

LowerCase == <<"a", "b", "c", "d", "e", "f", "g", "h", "i", "j", "k", "l", "m",
             "n", "o", "p", "q", "r", "s", "t", "u", "v", "w", "x", "y", "z">>

\* String.prototype.toLowerCase() on one character.
ToLower(c) ==
  IF \E i \in 1..Len(UpperCase) : UpperCase[i] = c
  THEN LowerCase[CHOOSE i \in 1..Len(UpperCase) : UpperCase[i] = c]
  ELSE c

\* The alternatives of the pattern /veil|gears|steam|cold|machine/i.
FallbackPattern ==
  { <<"v", "e", "i", "l">>,
    <<"g", "e", "a", "r", "s">>,
    <<"s", "t", "e", "a", "m">>,
    <<"c", "o", "l", "d">>,
    <<"m", "a", "c", "h", "i", "n", "e">> }

\* needle occurs in hay, compared without case.
Contains(hay, needle) ==
  \E i \in 1..(Len(hay) - Len(needle) + 1) :
    \A k \in 1..Len(needle) : ToLower(hay[i + k - 1]) = ToLower(needle[k])

\* RegExp.prototype.test() of the pattern on a fallback string.
MatchesFallbackPattern(text) ==
  \E alt \in FallbackPattern : Contains(CharsOf(text), alt)

\* A generateResponse() without the fallback; property
\* C8_BothFailTurnCompletes does not survive it.
GenerateResponseNoFallback(chat) == chat.content

\* generateResponse(): chat is the outcome of the POST to /api/chat; an
\* empty content falls back as well (content || getFallbackResponse()).
GenerateResponse(chat) ==
  IF chat.ok /\ chat.content # ""
  THEN chat.content
  ELSE GetFallbackResponse(chat.draw)

\* ------------------------------------------------------------- TTSService
\* browserTTSFallback(): a silent buffer of 2 seconds.
BrowserTTSFallback == [kind |-> "silent", seconds |-> SILENCE_SECONDS]

\* synthesize(): tts is the outcome of the POST to /api/tts and the decode.
Synthesize(tts) ==
  IF tts.ok THEN [kind |-> "decoded", seconds |-> tts.seconds]
  ELSE BrowserTTSFallback

\* An applyGhostEffects() that reports the duration of the buffer itself;
\* property C38_DurationIsBufferOverRate does not survive it.
EffectsDurationUnscaled(ms) == ms

\* applyGhostEffects(): audioBuffer.duration / source.playbackRate.value, for
\* a buffer of ms milliseconds, in whole milliseconds.
EffectsDuration(ms) == (ms * 100) \div PLAYBACK_RATE

\* An applyGhostEffects() that hands out the source without connecting it;
\* property C27_StartedOnlyWhenWired does not survive it.
ApplyGhostEffectsUnwired(fault) == {}

\* applyGhostEffects(): the connections of the new effects chain; none when
\* the call throws.
ApplyGhostEffects(fault) == IF fault = "effects" THEN {} ELSE VoiceEdges

\* ------------------------------------------------------------------ state
VARIABLES
  session,    \* App: EVPSession (status, transcript, currentEntropy, debugMode)
  turns,      \* one record per processQuestion invocation that passed the guard
  starts,     \* one record per handleStart invocation
  speech,     \* useSpeechRecognition: isListening, transcript, the engine
  agm,        \* the AudioGraphManager singleton
  webaudio,   \* the platform's AudioContexts and their graphs
  gate,       \* SpectralEntropyService.debugMode and the last standalone check
  duckCmd,    \* history: the argument of the latest duckNoise() call of App
  ended,      \* history: the turn the latest step ended, with its final record
  events,     \* the number of user and environment events so far
  now,        \* the platform clock, as Date.now() returns it, in clock ticks
  call        \* the latest call of a service method on its own, with its result

vars == <<session, turns, starts, speech, agm, webaudio, gate, duckCmd, ended,
          events, now, call>>

Event == events < MaxEvents /\ events' = events + 1


\* Inputs the environment supplies in the session specification.
Questions == {"typed"}

Utterances == {"spoken"}

FetchOutcomes ==
  { [ok |-> TRUE, why |-> "none", boost |-> 15, variation |-> 0, random |-> 0],
    [ok |-> FALSE, why |-> "status", boost |-> 0, variation |-> 0,
     random |-> 44] }

ChatOutcomes ==
  { [ok |-> TRUE, content |-> "WHO DARES DISTURB...", draw |-> 0],
    [ok |-> FALSE, content |-> "", draw |-> 99] }

TtsOutcomes ==
  { [ok |-> TRUE, seconds |-> 3], [ok |-> FALSE, seconds |-> 0] }

Faults == {"none", "effects", "start"}

\* A transcript entry: id is the prefix and the Date.now() it is built from,
\* timestamp a Date.now() of the same moment; turn is a history tag naming
\* the invocation that appended it.
UserEntry(q, t) ==
  [id |-> <<"user-", now>>, timestamp |-> now,
   speaker |-> "user", text |-> q, entropyReading |-> NullEntropy, turn |-> t]

\* A spirit entry that drops the reading of its turn; property
\* C32_OneQueryOneExchange does not survive it.
SpiritEntryNoReading(text, value, t) ==
  [id |-> <<"spirit-", now>>, timestamp |-> now,
   speaker |-> "spirit", text |-> text, entropyReading |-> NullEntropy,
   turn |-> t]

SpiritEntry(text, value, t) ==
  [id |-> <<"spirit-", now>>, timestamp |-> now,
   speaker |-> "spirit", text |-> text, entropyReading |-> value, turn |-> t]

\* A stock entry that drops the reading; property C9_GateDeniedStockEntry does
\* not survive it.
NoPresenceEntryNoReading(value, t) ==
  SpiritEntry("No presence detected...", NullEntropy, t)

\* A catch block that leaves the status alone; property
\* C7_ExceptionCaughtAtTurnBoundary does not survive it.
OnPipelineErrorKeepsStatus(sess) == sess

\* noPresenceEntry
NoPresenceEntry(value, t) == SpiritEntry("No presence detected...", value, t)

\* A catch block that puts the status back to 'responding'; property
\* C13_TurnsEventuallyEnd does not survive it.
OnPipelineErrorStaysResponding(sess) == [sess EXCEPT !.status = "responding"]

\* The catch block of processQuestion().
OnPipelineError(sess) == [sess EXCEPT !.status = "active"]

IdleTurn ==
  [pc |-> "idle", question |-> "", value |-> NullEntropy, source |-> "none",
   respond |-> FALSE, response |-> "", ctx |-> Null, buffer |-> "none",
   seconds |-> 0, fx |-> {},
   llmCalled |-> FALSE, llmFailed |-> FALSE, ttsCalled |-> FALSE,
   ttsFailed |-> FALSE, started |-> FALSE, threw |-> FALSE, stopped |-> FALSE]

\* A finished turn keeps nothing: what it did is in the transcript and, for
\* the step that finished it, in ended.
DoneTurn == [IdleTurn EXCEPT !.pc = "done"]

NoneEnded == [t |-> 0, turn |-> IdleTurn]

IdleStart == [pc |-> "idle", ctx |-> Null]

InFlight(t) == turns[t].pc \in {"gate", "llm", "tts", "wait"}

FreeTurns(ts) == {t \in Turns : ts[t].pc = "idle"}

NextTurn(ts) == CHOOSE t \in FreeTurns(ts) : \A u \in FreeTurns(ts) : t <= u

FreeStarts == {s \in Starts : starts[s].pc = "idle"}

NextStart == CHOOSE s \in FreeStarts : \A u \in FreeStarts : s <= u

\* ------------------------------------------------- useSpeechRecognition
\* startListening(): recognition.start() throws when the engine has already
\* been started; the transcript has been reset by then.
StartListening(sp) ==
  IF sp.supported /\ ~sp.isListening
  THEN [sp EXCEPT !.transcript = "",
                  !.engine = IF @ = "idle" THEN "starting" ELSE @]
  ELSE sp

\* stopListening(): recognition.stop(); the engine ends later (onend).
StopListening(sp) ==
  IF sp.supported /\ sp.isListening
  THEN [sp EXCEPT !.engine = IF @ = "listening" THEN "stopping" ELSE @]
  ELSE sp

ResetTranscript(sp) == [sp EXCEPT !.transcript = ""]

\* ------------------------------------------------------------------- App
\* The part of a step App's handlers and effects share: S is the record
\* [session, turns, speech].

\* A processQuestion() that replaces the transcript by the new user entry;
\* property C35_TranscriptAppendOnly does not survive it.
ProcessQuestionReplaces(S, q) ==
  IF S.session.status # "active" THEN S
  ELSE LET t == NextTurn(S.turns)
       IN [S EXCEPT !.session.status = "processing",
                    !.session.transcript = <<UserEntry(q, t)>>,
                    !.turns[t] = [IdleTurn EXCEPT !.pc = "gate", !.question = q]]

\* processQuestion() up to its first await.
ProcessQuestion(S, q) ==
  IF S.session.status # "active" THEN S
  ELSE LET t == NextTurn(S.turns)
       IN [S EXCEPT !.session.status = "processing",
                    !.session.transcript = Append(@, UserEntry(q, t)),
                    !.turns[t] = [IdleTurn EXCEPT !.pc = "gate", !.question = q]]

\* The speech-result effect, run after every render.
RunEffects(S) ==
  IF S.speech.transcript # "" /\ S.session.status = "active"
  THEN LET S1 == ProcessQuestion(S, S.speech.transcript)
       IN [S1 EXCEPT !.speech = ResetTranscript(@)]
  ELSE S

Pack(sess, ts, sp) == [session |-> sess, turns |-> ts, speech |-> sp]

\* Commit a step that ends no turn: the handler's result S, then the effects.
Commit(S) ==
  LET R == RunEffects(S)
  IN /\ session' = R.session
     /\ turns' = R.turns
     /\ speech' = R.speech
     /\ ended' = NoneEnded

\* A turn end whose finally block issues no duckNoise(false); property
\* C14_IdleSessionIsUnducked does not survive it.
CommitEndStaysDucked(sess, fin, t) ==
  LET R == RunEffects(Pack(sess, [turns EXCEPT ![t] = DoneTurn], speech))
  IN /\ session' = R.session
     /\ turns' = R.turns
     /\ speech' = R.speech
     /\ ended' = [t |-> t, turn |-> fin]
     /\ UNCHANGED <<webaudio, duckCmd>>

\* Commit the step that ends turn t, whose final record is fin; the finally
\* block of processQuestion() runs: duckNoise(false).
CommitEnd(sess, fin, t) ==
  LET R == RunEffects(Pack(sess, [turns EXCEPT ![t] = DoneTurn], speech))
  IN /\ session' = R.session
     /\ turns' = R.turns
     /\ speech' = R.speech
     /\ ended' = [t |-> t, turn |-> fin]
     /\ webaudio' = DuckNoise(agm, webaudio, FALSE)
     /\ duckCmd' = "false"

\* handleTextSubmit(text) -> processQuestion(text).
HandleTextSubmit(q) ==
  /\ IF session.status = "active"
     THEN /\ Event
          /\ Commit(ProcessQuestion(Pack(session, turns, speech), q))
     ELSE UNCHANGED <<session, turns, speech, ended, events>>
  /\ UNCHANGED <<starts, agm, webaudio, gate, now, call, duckCmd>>

\* processQuestion(): the gate check has resolved (it never rejects).
GateResolve(t, fetch) ==
  /\ turns[t].pc = "gate"
  /\ LET r == ShouldGhostRespond(GetSpectralReading(gate.debugMode, fetch))
         sess1 == [session EXCEPT !.currentEntropy = r.reading.value]
         seen == [turns[t] EXCEPT !.value = r.reading.value,
                                  !.source = r.reading.source,
                                  !.respond = r.respond]
     IN IF ~r.respond
        THEN \* no presence: append the stock entry, return, finally
             CommitEnd([sess1 EXCEPT
                          !.status = "active",
                          !.transcript = Append(@,
                             NoPresenceEntry(r.reading.value, t))],
                       [seen EXCEPT !.pc = "done"], t)
        ELSE \* presence: responding, duck, ask the text generator
             /\ Commit(Pack([sess1 EXCEPT !.status = "responding"],
                            [turns EXCEPT ![t] = [seen EXCEPT !.pc = "llm",
                                                       !.llmCalled = TRUE]],
                            speech))
             /\ webaudio' = DuckNoise(agm, webaudio, TRUE)
             /\ duckCmd' = "true"
  /\ UNCHANGED <<starts, agm, gate, now, call, events>>

\* processQuestion(): generateResponse() has resolved (it never rejects).
LLMResolve(t, chat) ==
  /\ turns[t].pc = "llm"
  /\ LET text == GenerateResponse(chat)
         got == [turns[t] EXCEPT !.response = text, !.llmFailed = ~chat.ok]
     IN IF GetAudioContext(agm) # Null
        THEN \* synthesize(ghostResponse, audioContext) is requested
             /\ Commit(Pack(session,
                            [turns EXCEPT ![t] = [got EXCEPT
                                                    !.pc = "tts",
                                                    !.ctx = GetAudioContext(agm),
                                                    !.ttsCalled = TRUE]],
                            speech))
             /\ UNCHANGED <<webaudio, duckCmd>>
        ELSE \* no context: straight to the spirit entry, then finally
             CommitEnd([session EXCEPT
                          !.status = "active",
                          !.transcript = Append(@,
                             SpiritEntry(text, turns[t].value, t))],
                       [got EXCEPT !.pc = "done"], t)
  /\ UNCHANGED <<starts, agm, gate, now, call, events>>

\* processQuestion(): synthesize() has resolved (it never rejects); then
\* applyGhostEffects() and source.start(), either of which may throw.
TTSResolve(t, tts, fault) ==
  /\ turns[t].pc = "tts"
  /\ LET buf == Synthesize(tts)
         got == [turns[t] EXCEPT !.buffer = buf.kind, !.seconds = buf.seconds,
                                 !.fx = ApplyGhostEffects(fault),
                                 !.ttsFailed = ~tts.ok]
     IN IF fault = "none"
        THEN /\ Commit(Pack(session,
                            [turns EXCEPT ![t] = [got EXCEPT !.pc = "wait",
                                                      !.started = TRUE]],
                            speech))
             /\ UNCHANGED <<webaudio, duckCmd>>
        ELSE \* catch: status active; finally: duckNoise(false)
             CommitEnd(OnPipelineError(session),
                       [got EXCEPT !.pc = "done", !.threw = TRUE], t)
  /\ UNCHANGED <<starts, agm, gate, now, call, events>>

\* processQuestion(): the post-playback timer has fired.
WaitDone(t) ==
  /\ turns[t].pc = "wait"
  /\ CommitEnd([session EXCEPT
                   !.status = "active",
                   !.transcript = Append(@,
                      SpiritEntry(turns[t].response, turns[t].value, t))],
               [turns[t] EXCEPT !.pc = "done"], t)
  /\ UNCHANGED <<starts, agm, gate, now, call, events>>

\* A handleStart() that keeps the transcript of the session before; property
\* C22_RestartIsFresh does not survive it.
HandleStartTailKeepsTranscript(sess, sp) ==
  [session |-> [sess EXCEPT !.status = "active",
                            !.currentEntropy = NullEntropy],
   speech |-> IF sp.supported THEN StartListening(sp) ELSE sp]

\* handleStart() after startSession() has returned.
HandleStartTail(sess, sp) ==
  [session |-> [sess EXCEPT !.status = "active", !.transcript = <<>>,
                            !.currentEntropy = NullEntropy],
   speech |-> IF sp.supported THEN StartListening(sp) ELSE sp]

\* handleStart(): initialize(), then startSession() up to the resume() await
\* (a new context is suspended); when the context already runs, the whole
\* handler completes in this step.  The Start button is rendered only while
\* status is 'inactive'.
HandleStart ==
  /\ session.status = "inactive"
  /\ Event
  /\ LET s == NextStart
         r == Initialize(agm, webaudio)
         c == r.m.audioContext
     IN IF r.w[c].state = "suspended"
        THEN /\ starts' = [starts EXCEPT ![s] = [pc |-> "resume", ctx |-> c]]
             /\ agm' = r.m
             /\ webaudio' = r.w
             /\ Commit(Pack(session, turns, speech))
        ELSE LET r2 == StartSessionTail(r.m, r.w)
                 h == HandleStartTail(session, speech)
             IN /\ starts' = starts
                /\ agm' = r2.m
                /\ webaudio' = r2.w
                /\ Commit(Pack(h.session, turns, h.speech))
  /\ UNCHANGED <<gate, now, call, duckCmd>>

\* audioContext.resume() has resolved: the rest of startSession(), which
\* reads this.audioContext.state first (a TypeError when stopSession() has
\* run meanwhile), then the rest of handleStart().
ResumeResolve(s) ==
  /\ starts[s].pc = "resume"
  /\ webaudio[starts[s].ctx].state \in {"suspended", "running"}
  /\ LET w1 == [webaudio EXCEPT ![starts[s].ctx].state = "running"]
     IN IF agm.audioContext = Null
        THEN /\ starts' = [starts EXCEPT ![s] = IdleStart]
             /\ webaudio' = w1
             /\ agm' = agm
             /\ Commit(Pack(session, turns, speech))
        ELSE LET r2 == StartSessionTail(agm, w1)
                 h == HandleStartTail(session, speech)
             IN /\ starts' = [starts EXCEPT ![s] = IdleStart]
                /\ agm' = r2.m
                /\ webaudio' = r2.w
                /\ Commit(Pack(h.session, turns, h.speech))
  /\ UNCHANGED <<gate, now, call, duckCmd, events>>

\* A handleStart() whose catch starts the session all the same; property
\* C24_FailedStartChangesNothing does not survive it.
ResumeRejectStartsAnyway(s) ==
  /\ starts[s].pc = "resume"
  /\ starts' = [starts EXCEPT ![s] = IdleStart]
  /\ LET h == HandleStartTail(session, speech)
     IN Commit(Pack(h.session, turns, h.speech))
  /\ UNCHANGED <<agm, webaudio, gate, now, call, duckCmd, events>>

\* handleStart() when initialize() throws (new AudioContext() fails): the
\* field is not assigned, handleStart()'s catch logs the error.
HandleStartThrows ==
  /\ session.status = "inactive"
  /\ agm.audioContext = Null
  /\ Event
  /\ Commit(Pack(session, turns, speech))
  /\ UNCHANGED <<starts, agm, webaudio, gate, now, call, duckCmd>>

\* audioContext.resume() has rejected: handleStart()'s catch.
ResumeReject(s) ==
  /\ starts[s].pc = "resume"
  /\ starts' = [starts EXCEPT ![s] = IdleStart]
  /\ Commit(Pack(session, turns, speech))
  /\ UNCHANGED <<agm, webaudio, gate, now, call, duckCmd, events>>

\* handleStop().  The End button is rendered only while status is not
\* 'inactive'.  stopped is a history flag on the turns in flight.
HandleStop ==
  /\ session.status # "inactive"
  /\ Event
  /\ LET r == StopSession(agm, webaudio)
     IN /\ agm' = r.m
        /\ webaudio' = r.w
        /\ Commit(Pack([session EXCEPT !.status = "inactive"],
                       [t \in Turns |-> IF InFlight(t)
                                        THEN [turns[t] EXCEPT !.stopped = TRUE]
                                        ELSE turns[t]],
                       StopListening(speech)))
  /\ UNCHANGED <<starts, gate, now, call, duckCmd>>

\* recognition.onstart
RecOnStart ==
  /\ speech.engine = "starting"
  /\ Commit(Pack(session, turns,
                 [speech EXCEPT !.engine = "listening", !.isListening = TRUE]))
  /\ UNCHANGED <<starts, agm, webaudio, gate, now, call, duckCmd, events>>

\* recognition.onresult with a final result; stop() may still deliver one.
RecOnResult(q) ==
  /\ speech.engine \in {"listening", "stopping"}
  /\ Event
  /\ Commit(Pack(session, turns, [speech EXCEPT !.transcript = q]))
  /\ UNCHANGED <<starts, agm, webaudio, gate, now, call, duckCmd>>

\* recognition.onend
RecOnEnd ==
  /\ speech.engine # "idle"
  /\ Commit(Pack(session, turns,
                 [speech EXCEPT !.engine = "idle", !.isListening = FALSE]))
  /\ UNCHANGED <<starts, agm, webaudio, gate, now, call, duckCmd, events>>

\* The restart-listening effect's 500 ms timer fires; it is armed only while
\* status is 'active', speech is supported and isListening is false.
RestartTimer ==
  /\ session.status = "active"
  /\ speech.supported
  /\ ~speech.isListening
  /\ Event
  /\ Commit(Pack(session, turns, StartListening(speech)))
  /\ UNCHANGED <<starts, agm, webaudio, gate, now, call, duckCmd>>

\* ---------------------------------------------------- session specification
NoCall ==
  [fn |-> "none", ms |-> 0, duration |-> 0, started |-> FALSE,
   chat |-> [ok |-> TRUE, content |-> "", draw |-> 0], text |-> ""]

NoCheck ==
  [respond |-> FALSE, value |-> NullEntropy, source |-> "none", queries |-> 0,
   queryFailed |-> FALSE, debugAtCheck |-> FALSE]

Init ==
  /\ session = [status |-> "inactive", transcript |-> <<>>,
                currentEntropy |-> NullEntropy, debugMode |-> FALSE]
  /\ turns = [t \in Turns |-> IdleTurn]
  /\ starts = [s \in Starts |-> IdleStart]
  /\ speech \in {[supported |-> b, isListening |-> FALSE, transcript |-> "",
                  engine |-> "idle"] : b \in BOOLEAN}
  /\ agm = ManagerInit
  /\ webaudio = [c \in Contexts |-> NoContext]
  /\ gate = [debugMode |-> FALSE, out |-> NoCheck]
  /\ duckCmd = "none"
  /\ ended = NoneEnded
  /\ events = 0
  /\ now = 0
  /\ call = NoCall

Next ==
  \/ HandleStart
  \/ HandleStartThrows
  \/ \E s \in Starts : ResumeResolve(s)
  \/ \E s \in Starts : ResumeReject(s)
  \/ HandleStop
  \/ \E q \in Questions : HandleTextSubmit(q)
  \/ \E t \in Turns, f \in FetchOutcomes : GateResolve(t, f)
  \/ \E t \in Turns, c \in ChatOutcomes : LLMResolve(t, c)
  \/ \E t \in Turns, o \in TtsOutcomes, fault \in Faults : TTSResolve(t, o, fault)
  \/ \E t \in Turns : WaitDone(t)
  \/ RecOnStart
  \/ \E q \in Utterances : RecOnResult(q)
  \/ RecOnEnd
  \/ RestartTimer

Spec == Init /\ [][Next]_vars

\* ------------------------------------------------------- fair specification
\* The next step of turn t: the promise or timer it awaits settles.
TurnStep(t) ==
  \/ \E f \in FetchOutcomes : GateResolve(t, f)
  \/ \E c \in ChatOutcomes : LLMResolve(t, c)
  \/ \E o \in TtsOutcomes, fault \in Faults : TTSResolve(t, o, fault)
  \/ WaitDone(t)

\* Every external call eventually resolves or rejects and every scheduled
\* timer fires; the continuation then runs on the event loop.
FairSpec == Spec /\ \A t \in Turns : WF_vars(TurnStep(t))

\* ---------------------------------------------------- manager specification
\* The AudioGraphManager on its own: its public methods called in any order.
\* Each call is an event; a startSession() that awaits resume() is pending in
\* starts until the promise settles.
Volumes == {-50, 0, 30, 100, 150}

MgrRest == <<session, turns, speech, gate, ended, now, call>>

\* initialize()
MgrInitialize ==
  /\ Event
  /\ LET r == Initialize(agm, webaudio)
     IN agm' = r.m /\ webaudio' = r.w
  /\ UNCHANGED <<starts, duckCmd, MgrRest>>

\* startSession() up to the resume() await, or to its end when the context
\* is not suspended.
MgrStartSession ==
  /\ Event
  /\ LET r == Initialize(agm, webaudio)
         c == r.m.audioContext
     IN IF r.w[c].state = "suspended"
        THEN /\ starts' = [starts EXCEPT ![NextStart] =
                                            [pc |-> "resume", ctx |-> c]]
             /\ agm' = r.m
             /\ webaudio' = r.w
        ELSE LET r2 == StartSessionTail(r.m, r.w)
             IN /\ starts' = starts
                /\ agm' = r2.m
                /\ webaudio' = r2.w
  /\ UNCHANGED <<duckCmd, MgrRest>>

\* resume() has resolved: the rest of startSession(); reading
\* this.audioContext.state throws when stopSession() has run meanwhile.
MgrResumeResolve(s) ==
  /\ starts[s].pc = "resume"
  /\ webaudio[starts[s].ctx].state \in {"suspended", "running"}
  /\ starts' = [starts EXCEPT ![s] = IdleStart]
  /\ LET w1 == [webaudio EXCEPT ![starts[s].ctx].state = "running"]
     IN IF agm.audioContext = Null
        THEN agm' = agm /\ webaudio' = w1
        ELSE LET r2 == StartSessionTail(agm, w1)
             IN agm' = r2.m /\ webaudio' = r2.w
  /\ UNCHANGED <<duckCmd, events, MgrRest>>

\* resume() has rejected: startSession() rejects.
MgrResumeReject(s) ==
  /\ starts[s].pc = "resume"
  /\ starts' = [starts EXCEPT ![s] = IdleStart]
  /\ UNCHANGED <<agm, webaudio, duckCmd, events, MgrRest>>

\* stopSession()
MgrStopSession ==
  /\ Event
  /\ LET r == StopSession(agm, webaudio)
     IN agm' = r.m /\ webaudio' = r.w
  /\ UNCHANGED <<starts, duckCmd, MgrRest>>

\* setNoiseVolume(level)
MgrSetNoiseVolume(level) ==
  /\ Event
  /\ webaudio' = SetNoiseVolume(agm, webaudio, level)
  /\ UNCHANGED <<agm, starts, duckCmd, MgrRest>>

\* duckNoise(duck)
MgrDuckNoise(duck) ==
  /\ Event
  /\ webaudio' = DuckNoise(agm, webaudio, duck)
  /\ duckCmd' = IF duck THEN "true" ELSE "false"
  /\ UNCHANGED <<agm, starts, MgrRest>>

ManagerNext ==
  \/ MgrInitialize
  \/ MgrStartSession
  \/ \E s \in Starts : MgrResumeResolve(s)
  \/ \E s \in Starts : MgrResumeReject(s)
  \/ MgrStopSession
  \/ \E v \in Volumes : MgrSetNoiseVolume(v)
  \/ \E b \in BOOLEAN : MgrDuckNoise(b)

ManagerSpec == Init /\ [][ManagerNext]_vars

\* ------------------------------------------------------ clock specification
\* One session with the clock running: Date.now() never goes back, and any
\* number of continuations may run between two of its ticks.
Tick ==
  /\ now < MaxTicks
  /\ now' = now + 1
  /\ UNCHANGED <<session, turns, starts, speech, agm, webaudio, gate, duckCmd,
                 ended, events, call>>

\* What a person does takes time: a question is typed or spoken to its end
\* at least one clock tick after the latest transcript entry appeared.
PersonIsLater ==
  IF session.transcript = <<>> THEN TRUE
  ELSE now > session.transcript[Len(session.transcript)].timestamp

\* The Start button is clicked once.
ClockStart == (\A s \in Starts : starts[s].pc = "idle") /\ HandleStart

ClockTextSubmit(q) == PersonIsLater /\ HandleTextSubmit(q)

ClockRecOnResult(q) == PersonIsLater /\ RecOnResult(q)

ClockNext ==
  \/ Tick
  \/ ClockStart
  \/ \E s \in Starts : ResumeResolve(s)
  \/ \E q \in Questions : ClockTextSubmit(q)
  \/ \E t \in Turns, f \in FetchOutcomes : GateResolve(t, f)
  \/ \E t \in Turns, c \in ChatOutcomes : LLMResolve(t, c)
  \/ \E t \in Turns, o \in TtsOutcomes, fault \in Faults : TTSResolve(t, o, fault)
  \/ \E t \in Turns : WaitDone(t)
  \/ RecOnStart
  \/ \E q \in Utterances : ClockRecOnResult(q)
  \/ RecOnEnd

ClockSpec == Init /\ [][ClockNext]_vars

\* ---------------------------------------------------- service specification
\* The voice services on their own: applyGhostEffects() on buffers of every
\* length, generateResponse() with every outcome of the request and every
\* value of Math.random().
BufferDurations == {50 * k : k \in 0..MaxBufferSteps}

AllChatOutcomes ==
  [ok : {TRUE}, content : {"WHO DARES DISTURB...", ""}, draw : 0..99]
    \cup [ok : {FALSE}, content : {""}, draw : 0..99]

ServiceRest ==
  <<session, turns, starts, speech, agm, webaudio, gate, duckCmd, ended,
    events, now>>

\* applyGhostEffects(audioBuffer, audioContext): the source is returned
\* without having been started.
EffectsCall(ms) ==
  /\ call' = [NoCall EXCEPT !.fn = "applyGhostEffects", !.ms = ms,
                            !.duration = EffectsDuration(ms),
                            !.started = FALSE]
  /\ UNCHANGED ServiceRest

\* generateResponse(question, entropy)
GenerateCall(chat) ==
  /\ call' = [NoCall EXCEPT !.fn = "generateResponse", !.chat = chat,
                            !.text = GenerateResponse(chat)]
  /\ UNCHANGED ServiceRest

ServiceNext ==
  \/ \E ms \in BufferDurations : EffectsCall(ms)
  \/ \E chat \in AllChatOutcomes : GenerateCall(chat)

ServiceSpec == Init /\ [][ServiceNext]_vars

\* ------------------------------------------------------- gate specification
\* The entropy service and the gate on their own: every outcome of the DONKI
\* query, every storm boost, every value of Math.random().
\* A query fails by timing out (AbortSignal.timeout), by a non-success status
\* or by a payload that does not parse.
QueryFailures == {"timeout", "status", "malformed"}

AllFetchOutcomes ==
  [ok : {TRUE}, why : {"none"}, boost : 0..32, variation : 0..50, random : {0}]
    \cup [ok : {FALSE}, why : QueryFailures, boost : {0}, variation : {0},
          random : 0..99]

\* setDebugMode(enabled)
SetDebugMode(enabled) ==
  /\ gate' = [gate EXCEPT !.debugMode = enabled]
  /\ UNCHANGED <<session, turns, starts, speech, agm, webaudio, duckCmd, ended,
                 events, now, call>>

\* entropyGate.shouldGhostRespond(), called on its own.  queryFailed and
\* debugAtCheck are history: whether this check's query failed, and whether
\* debug mode was on when the check ran.
GateCheck(fetch) ==
  /\ LET r == ShouldGhostRespond(GetSpectralReading(gate.debugMode, fetch))
     IN gate' = [gate EXCEPT !.out = [respond |-> r.respond,
                                      value |-> r.reading.value,
                                      source |-> r.reading.source,
                                      queries |-> r.reading.queries,
                                      queryFailed |-> ~gate.debugMode /\ ~fetch.ok,
                                      debugAtCheck |-> gate.debugMode]]
  /\ UNCHANGED <<session, turns, starts, speech, agm, webaudio, duckCmd, ended,
                 events, now, call>>

GateNext ==
  \/ \E b \in BOOLEAN : SetDebugMode(b)
  \/ \E f \in AllFetchOutcomes : GateCheck(f)

GateSpec == Init /\ [][GateNext]_vars

\* ================================================================ properties
\* A turn is in its responding phase from the step that sets status
\* 'responding' to the step that ends the post-playback wait.
Responding(t) == turns[t].pc \in {"llm", "tts", "wait"}

\* The step ends turn t.
TurnEnds(t) == InFlight(t) /\ ended'.t = t

\* The step accepts an input: a new turn starts.
AcceptedNow == \E u \in Turns : turns[u].pc = "idle" /\ turns'[u].pc = "gate"

\* The turn ended with status 'active'; the speech-result effect may have
\* accepted a waiting speech result in the same step.
EndsActive ==
  \/ session'.status = "active"
  \/ AcceptedNow /\ speech.transcript # "" /\ session'.status = "processing"

SpiritEntriesOf(tr, t) ==
  {i \in 1..Len(tr) : tr[i].speaker = "spirit" /\ tr[i].turn = t}

\* The step is a completed handleStart().
StartCompletes == HandleStart \/ \E s \in Starts : ResumeResolve(s)

StatusEdges ==
  { <<"inactive", "active">>, <<"active", "processing">>,
    <<"processing", "active">>, <<"processing", "responding">>,
    <<"responding", "active">> }
    \cup {<<a, "inactive">> : a \in SessionStatus \ {"inactive"}}

\* The status change of one step; a step whose effect accepts a waiting
\* speech result passes through 'active' on its way to 'processing'.
StepFollowsEdges(a, b) ==
  IF AcceptedNow /\ a # "active"
  THEN b = "processing" /\ <<a, "active">> \in StatusEdges
  ELSE a = b \/ <<a, b>> \in StatusEdges

\* C1: no two turns are in their responding phase at the same time.
C1_NoOverlappingResponding ==
  Cardinality({t \in Turns : Responding(t)}) <= 1

\* C2: after handleStop ran while a turn was in flight, the later completion
\* of that turn's pending step appends no transcript entry and does not change
\* the session status.
C2_StaleCompletionIgnored ==
  [][\A t \in Turns :
       (turns[t].stopped /\ turns'[t] # turns[t])
         => /\ session'.transcript = session.transcript
            /\ session'.status = session.status]_vars

\* C3: immediately after handleStop, invoked in any session status, the status
\* is 'inactive' and getAudioContext() returns null.
C3_StopLeavesInactiveNoContext ==
  [][HandleStop => /\ session'.status = "inactive"
                   /\ GetAudioContext(agm') = Null]_vars

\* The End button was clicked while a turn was playing its voice.
C3_StoppedWhileResponding ==
  /\ session.status = "inactive"
  /\ GetAudioContext(agm) = Null
  /\ \E t \in Turns : turns[t].stopped /\ turns[t].pc = "wait"

\* C4: the manager holds an audio graph (context and nodes non-null) if and
\* only if the session status is not 'inactive'.
C4_GraphIffNotInactive ==
  /\ (agm.audioContext # Null) <=> (session.status # "inactive")
  /\ (agm.audioContext # Null) <=> (agm.noiseGainNode # Null)
  /\ (agm.audioContext # Null) <=> (agm.analyserNode # Null)

\* C5: inputs start a turn only while status is 'active', so at most one turn
\* is in flight at any time.
C5_AtMostOneTurnInFlight ==
  Cardinality({t \in Turns : InFlight(t)}) <= 1

\* C6: every change of status follows one of the listed edges; status leaves
\* 'inactive' only through handleStart and reaches it only through handleStop.
C6_StatusFollowsEdges ==
  [][/\ StepFollowsEdges(session.status, session'.status)
     /\ (session.status = "inactive" /\ session'.status # "inactive")
          => StartCompletes
     /\ (session.status # "inactive" /\ session'.status = "inactive")
          => HandleStop]_vars

\* C7: when a step of an accepted turn throws, the turn ends with status
\* 'active', no spirit entry is appended for that turn, and duckNoise(false)
\* is issued.
C7_ExceptionCaughtAtTurnBoundary ==
  [][\A t \in Turns :
       (TurnEnds(t) /\ ended'.turn.threw)
         => /\ EndsActive
            /\ SpiritEntriesOf(session'.transcript, t) = {}
            /\ duckCmd' = "false"]_vars

\* A turn has thrown in the effects chain or in source.start().
C7_TurnThrew ==
  /\ ended.t # 0
  /\ ended.turn.threw
  /\ ended.turn.ttsCalled
  /\ duckCmd = "false"

\* C8: when both the text-generator request and the voice-synthesizer request
\* fail, the response is one of the fixed fallback strings, the buffer is 2
\* seconds of silence, and the turn ends by appending a spirit entry with that
\* text, with ducking disabled and status 'active'.
C8_BothFailTurnCompletes ==
  [][\A t \in Turns :
       /\ (turns[t].pc = "llm" /\ turns'[t].pc = "tts" /\ turns'[t].llmFailed)
            => turns'[t].response \in FallbackStrings
       /\ (turns[t].pc = "tts" /\ turns'[t].pc = "wait" /\ turns'[t].ttsFailed)
            => turns'[t].buffer = "silent" /\ turns'[t].seconds = 2
       /\ (TurnEnds(t) /\ turns[t].pc = "wait"
             /\ turns[t].llmFailed /\ turns[t].ttsFailed)
            => /\ turns[t].response \in FallbackStrings
               /\ Len(session'.transcript) > Len(session.transcript)
               /\ session'.transcript[Len(session.transcript) + 1]
                    = SpiritEntry(turns[t].response, turns[t].value, t)
               /\ duckCmd' = "false"
               /\ EndsActive]_vars

\* A turn whose generator and synthesizer requests both failed has ended.
C8_BothFailedTurnEnded ==
  /\ ended.t # 0
  /\ ended.turn.llmFailed
  /\ ended.turn.ttsFailed
  /\ ~ended.turn.threw
  /\ \E i \in 1..Len(session.transcript) :
       /\ session.transcript[i].turn = ended.t
       /\ session.transcript[i].text \in FallbackStrings

\* C9: when the gate denies a turn, exactly one spirit entry 'No presence
\* detected...' carrying the reading's value is appended, status returns to
\* 'active', and the generator, the synthesizer and source.start() are not
\* invoked within that turn.
C9_GateDeniedStockEntry ==
  [][\A t \in Turns :
       (TurnEnds(t) /\ turns[t].pc = "gate")
         => /\ ~ended'.turn.respond
            /\ Len(session'.transcript) > Len(session.transcript)
            /\ LET e == session'.transcript[Len(session.transcript) + 1]
               IN /\ e.speaker = "spirit"
                  /\ e.text = "No presence detected..."
                  /\ e.entropyReading = ended'.turn.value
                  /\ e.turn = t
            /\ ended'.turn.value # NullEntropy
            /\ Cardinality(SpiritEntriesOf(session'.transcript, t)) = 1
            /\ EndsActive
            /\ ~ended'.turn.llmCalled
            /\ ~ended'.turn.ttsCalled
            /\ ~ended'.turn.started]_vars

\* The gate has denied a turn.
C9_GateDenied ==
  /\ ended.t # 0
  /\ ended.turn.value # NullEntropy
  /\ ~ended.turn.respond
  /\ session.status = "active"

\* C10: shouldGhostRespond() answers respond = true for a value equal to the
\* threshold and for every value above it, false for every value below it,
\* whatever the source of the reading.
C10_GateInclusiveThreshold ==
  gate.out.source # "none"
    => /\ (gate.out.value = PRESENCE_THRESHOLD => gate.out.respond)
       /\ (gate.out.value > PRESENCE_THRESHOLD => gate.out.respond)
       /\ (gate.out.value < PRESENCE_THRESHOLD => ~gate.out.respond)

\* A random reading exactly on the threshold was approved.
C10_OnThresholdApproved ==
  /\ gate.out.value = PRESENCE_THRESHOLD
  /\ gate.out.source = "random_fallback"
  /\ gate.out.respond

C12_DebugModeBypassesQuery ==
  gate.out.source # "none"
    => IF gate.out.debugAtCheck
       THEN /\ gate.out.value = 85
            /\ gate.out.source = "debug_override"
            /\ gate.out.queries = 0
            /\ gate.out.respond
       ELSE /\ gate.out.queries = 1
            /\ gate.out.source \in {"nasa_donki", "random_fallback"}

\* A check ran while debug mode was enabled.
C12_CheckedInDebugMode ==
  /\ gate.debugMode
  /\ gate.out.debugAtCheck
  /\ gate.out.source = "debug_override"

\* C13: every accepted turn eventually ends, and a session whose status is
\* 'processing' or 'responding' eventually reaches 'active' or 'inactive',
\* whatever the collaborators answer.
C13_TurnsEventuallyEnd ==
  /\ \A t \in Turns : InFlight(t) ~> ~InFlight(t)
  /\ (session.status \in {"processing", "responding"})
       ~> (session.status \in {"active", "inactive"})

\* A turn whose generator request failed has ended after playing its voice,
\* and the session is back in 'active'.
C13_FailingTurnEnded ==
  /\ ended.t # 0
  /\ ended.turn.llmFailed
  /\ ~ended.turn.ttsFailed
  /\ ended.turn.started
  /\ session.status = "active"
  /\ \A t \in Turns : ~InFlight(t)

MgrStartCompletes ==
  \/ MgrStartSession /\ starts' = starts
  \/ (\E s \in Starts : MgrResumeResolve(s)) /\ agm.audioContext # Null

\* C15: duckNoise() never assigns the noise gain; each call schedules a ramp
\* that ends 0.1 s after the call, to the target of that call, so the pending
\* target is always the one of the last call, and after duckNoise(false) it is
\* NOISE.GAIN.
C15_DuckOnlySchedulesRamp ==
  [][\A b \in BOOLEAN :
       (MgrDuckNoise(b) /\ agm.noiseGainNode # Null)
         => LET g == webaudio[agm.noiseGainNode]
                h == webaudio'[agm.noiseGainNode]
            IN /\ h.noiseGain = g.noiseGain
               /\ h.rampAfter = 10
               /\ h.rampTarget = (IF b THEN SIDECHAIN_AMOUNT ELSE NOISE_GAIN)
               /\ (~b => h.rampTarget = NOISE_GAIN)]_vars

\* duckNoise(false) was the last call on a graph whose gain was set to 1.0
\* before: the gain is still 1.0 and ramps to NOISE.GAIN.
C15_RampPendingAfterUnduck ==
  /\ duckCmd = "false"
  /\ agm.noiseGainNode # Null
  /\ webaudio[agm.noiseGainNode].noiseGain = 100
  /\ webaudio[agm.noiseGainNode].rampTarget = NOISE_GAIN
  /\ webaudio[agm.noiseGainNode].rampAfter = RAMP_TIME

\* C16: the level duckNoise(true) ramps to is strictly lower than the level
\* duckNoise(false) ramps to.
C16_DuckedBelowNominal ==
  [][(MgrDuckNoise(TRUE) /\ agm.noiseGainNode # Null)
       => webaudio'[agm.noiseGainNode].rampTarget < DuckTarget(FALSE)]_vars

\* C17: after setNoiseVolume(v) on an initialized graph the stored noise gain
\* is 0 for v below 0, 1 for v above 1 and v otherwise; the stored noise gain
\* of every graph lies in [0,1].
C17_VolumeIsClamped ==
  /\ [][\A v \in Volumes :
          (MgrSetNoiseVolume(v) /\ agm.noiseGainNode # Null)
            => webaudio'[agm.noiseGainNode].noiseGain
                 = (IF v < 0 THEN 0 ELSE IF v > 100 THEN 100 ELSE v)]_vars
  /\ [](\A c \in Contexts :
          webaudio[c].state \in {"suspended", "running"}
            => webaudio[c].noiseGain >= 0 /\ webaudio[c].noiseGain <= 100)

\* A volume was stored on the running graph that only a clamped input or the
\* input 0 produces.
C17_StoredSilence ==
  /\ agm.noiseGainNode # Null
  /\ agm.isRunning
  /\ webaudio[agm.noiseGainNode].noiseGain = 0

\* C18: the oscillator of a graph is started at most once; when a
\* startSession() call has completed it has been started exactly once,
\* however the calls interleave, also on the graph built after a
\* stopSession().
C18_OscillatorStartedOnce ==
  /\ [](\A c \in Contexts : webaudio[c].lfoStarts <= 1)
  /\ [](agm.isRunning
          => agm.lfoNode # Null /\ webaudio[agm.lfoNode].lfoStarts = 1)
  /\ [][MgrStartCompletes
          => /\ agm'.isRunning
             /\ agm'.lfoNode # Null
             /\ webaudio'[agm'.lfoNode].lfoStarts = 1]_vars

\* A second graph runs after the first was stopped, its oscillator started
\* once, with no startSession() call pending.
C18_SecondGraphStartedOnce ==
  /\ agm.isRunning
  /\ webaudio[agm.lfoNode].lfoStarts = 1
  /\ \E c \in Contexts : c # agm.lfoNode /\ webaudio[c].state = "closed"
  /\ \A s \in Starts : starts[s].pc = "idle"

\* C19: after stopSession() the context, the analyser and every node
\* reference are null and isRunning is false; stopSession() on a stopped or
\* never initialized manager changes nothing.
C19_StopReleasesEverything ==
  [][MgrStopSession
       => /\ GetAudioContext(agm') = Null
          /\ GetAnalyserNode(agm') = Null
          /\ agm'.noiseNode = Null /\ agm'.filterNode = Null
          /\ agm'.lfoNode = Null /\ agm'.lfoGainNode = Null
          /\ agm'.noiseGainNode = Null /\ agm'.masterGainNode = Null
          /\ ~agm'.isRunning
          /\ (agm.audioContext = Null
                => agm' = agm /\ webaudio' = webaudio)]_vars

\* A graph was built and released by stopSession(), and no graph exists now.
C19_StoppedAfterRunning ==
  /\ agm.audioContext = Null
  /\ ~agm.isRunning
  /\ \E c \in Contexts : webaudio[c].state = "closed"
  /\ \A c \in Contexts : webaudio[c].state \in {"closed", "none"}

\* C20: getAnalyserNode(), getMasterGainNode() and getAudioContext() return a
\* handle only while the manager is running.
C20_HandlesOnlyWhileRunning ==
  (\/ GetAnalyserNode(agm) # Null
   \/ GetMasterGainNode(agm) # Null
   \/ GetAudioContext(agm) # Null) => agm.isRunning

\* C21: initialize() is idempotent: called while a context exists it returns
\* that context and changes neither the manager nor the platform; called
\* while none exists (first call, or first call after stopSession()) it
\* creates one context that did not exist before and builds every node on it.
C21_InitializeIdempotent ==
  [][MgrInitialize
       => IF agm.audioContext # Null
          THEN /\ Initialize(agm, webaudio).m.audioContext = agm.audioContext
               /\ agm' = agm
               /\ webaudio' = webaudio
          ELSE LET c == agm'.audioContext
               IN /\ c # Null
                  /\ webaudio[c].state = "none"
                  /\ webaudio'[c] = FreshContext
                  /\ \A d \in Contexts \ {c} : webaudio'[d] = webaudio[d]
                  /\ agm'.noiseNode = c /\ agm'.filterNode = c
                  /\ agm'.lfoNode = c /\ agm'.lfoGainNode = c
                  /\ agm'.noiseGainNode = c /\ agm'.masterGainNode = c
                  /\ agm'.analyserNode = c
                  /\ agm'.isRunning = agm.isRunning]_vars

\* After a stopSession() a second context was created by initialize() alone:
\* it is still suspended, its oscillator not started, no start pending.
C21_SecondContextInitialized ==
  /\ agm.audioContext # Null
  /\ webaudio[agm.audioContext].state = "suspended"
  /\ webaudio[agm.audioContext].lfoStarts = 0
  /\ \E c \in Contexts : webaudio[c].state = "closed"
  /\ \A s \in Starts : starts[s].pc = "idle"

\* The step is a handleStart() that ran to its end without an exception.
StartSucceeds ==
  \/ HandleStart /\ starts' = starts
  \/ (\E s \in Starts : ResumeResolve(s)) /\ agm.audioContext # Null

\* C22: after every successful handleStart(), also the one that follows a
\* handleStop() and for any number of stop/start cycles, the transcript is
\* empty (or holds only the question the speech-result effect accepts in the
\* same step), currentEntropy is null, and the manager holds a running context
\* with all nodes built on it that is none of the contexts closed by an
\* earlier handleStop().
C22_RestartIsFresh ==
  [][StartSucceeds
       => /\ \/ session'.transcript = <<>>
             \/ /\ AcceptedNow
                /\ speech.transcript # ""
                /\ Len(session'.transcript) = 1
                /\ session'.transcript[1].speaker = "user"
          /\ session'.currentEntropy = NullEntropy
          /\ LET c == agm'.audioContext
             IN /\ c # Null
                /\ webaudio'[c].state = "running"
                /\ \A d \in Contexts : webaudio[d].state = "closed" => d # c
                /\ agm'.noiseNode = c /\ agm'.filterNode = c
                /\ agm'.lfoNode = c /\ agm'.lfoGainNode = c
                /\ agm'.noiseGainNode = c /\ agm'.masterGainNode = c
                /\ agm'.analyserNode = c]_vars

\* The session was stopped and restarted twice in succession: two contexts
\* are closed, a third one runs, and the transcript is empty.
C22_RestartedTwice ==
  /\ session.status = "active"
  /\ session.transcript = <<>>
  /\ session.currentEntropy = NullEntropy
  /\ agm.audioContext # Null
  /\ webaudio[agm.audioContext].state = "running"
  /\ Cardinality({c \in Contexts : webaudio[c].state = "closed"}) = 2

\* C23: after handleStop() the transcript of the session is empty.
C23_StopClearsTranscript ==
  [][HandleStop => session'.transcript = <<>>]_vars

\* The step is a handleStart() that ends in its catch block.
StartFails ==
  \/ HandleStartThrows
  \/ \E s \in Starts : ResumeReject(s)
  \/ (\E s \in Starts : ResumeResolve(s)) /\ agm.audioContext = Null

\* C24: when initialize() or startSession() fails inside handleStart() the
\* failure is caught and the session stays as it was: the status does not
\* change (an inactive session remains inactive), the transcript is not
\* cleared and speech recognition is not started.
C24_FailedStartChangesNothing ==
  [][StartFails
       => /\ session'.status = session.status
          /\ session.status = "inactive" => session'.status = "inactive"
          /\ session'.transcript = session.transcript
          /\ session'.currentEntropy = session.currentEntropy
          /\ speech' = speech]_vars

\* A restart was refused by resume(): the session is inactive, still shows
\* the transcript of the session before, recognition is not started, and no
\* handleStart() is pending.
C24_RestartRefused ==
  /\ session.status = "inactive"
  /\ session.transcript # <<>>
  /\ agm.audioContext # Null
  /\ webaudio[agm.audioContext].state = "suspended"
  /\ \A s \in Starts : starts[s].pc = "idle"
  /\ speech.supported
  /\ speech.engine \in {"idle", "stopping"}

\* C25: for every reading value below 0.5 the gate refuses and the text
\* generator is not called.
C25_NoResponseBelowHalf ==
  \A t \in Turns :
    (turns[t].value # NullEntropy /\ turns[t].value < 50)
      => ~turns[t].respond /\ ~turns[t].llmCalled

\* C26: from the step that sets status 'responding' to the end of the
\* post-playback wait of an approved turn no new input is accepted: a step
\* that starts a turn finds no other turn in its responding phase, except the
\* one that ends in this very step.
C26_NoInputUntilSpoken ==
  [][AcceptedNow
       => \A t \in Turns : Responding(t) => TurnEnds(t)]_vars

\* C27: no source is started before its graph is wired: the oscillator of a
\* graph is started only when every connection of setupNodes() exists on its
\* context, and the source of a voice only when applyGhostEffects() has made
\* every connection of the effects chain.
C27_StartedOnlyWhenWired ==
  /\ \A c \in Contexts :
       webaudio[c].lfoStarts > 0 => NoiseEdges \subseteq webaudio[c].edges
  /\ \A t \in Turns : turns[t].started => VoiceEdges \subseteq turns[t].fx
  /\ (ended.t # 0 /\ ended.turn.started) => VoiceEdges \subseteq ended.turn.fx

\* A voice plays on a graph whose oscillator runs.
C27_VoiceStartedOnRunningGraph ==
  \E t \in Turns :
    /\ turns[t].pc = "wait"
    /\ turns[t].started
    /\ turns[t].ctx # Null
    /\ webaudio[turns[t].ctx].lfoStarts = 1
    /\ webaudio[turns[t].ctx].state = "running"

\* The nodes reachable from the nodes in seen along the connections E
\* without passing through a node in avoid.
RECURSIVE ReachAvoiding(_, _, _)
ReachAvoiding(E, seen, avoid) ==
  LET nxt == {e[2] : e \in {f \in E : f[1] \in seen}} \ avoid
  IN IF nxt \subseteq seen THEN seen
     ELSE ReachAvoiding(E, seen \cup nxt, avoid)

\* The connections a started voice plays through: its effects chain and the
\* graph of the context it was built on.
VoicePathEdges(turn) ==
  turn.fx \cup (IF turn.ctx # Null THEN webaudio[turn.ctx].edges ELSE {})

\* C28: the wet and dry outputs of every effects chain are connected to the
\* manager's master gain, so every path from a started voice source to the
\* destination passes through the master gain and through the analyser.
C28_VoiceThroughMaster ==
  \A t \in Turns :
    turns[t].started
      => /\ <<"wetGain", "masterGain">> \in turns[t].fx
         /\ <<"dryGain", "masterGain">> \in turns[t].fx
         /\ "destination" \notin
              ReachAvoiding(VoicePathEdges(turns[t]), {"source"}, {"masterGain"})
         /\ "destination" \notin
              ReachAvoiding(VoicePathEdges(turns[t]), {"source"}, {"analyser"})

\* C29: handleStop() stops input capture: while the session is inactive the
\* recognition engine is neither starting nor listening (it is idle, or
\* stopping after recognition.stop()).
C29_StoppedSessionNotListening ==
  session.status = "inactive" => speech.engine \in {"idle", "stopping"}

\* C30: a speech result delivered while status is not 'active' starts no
\* turn, neither at delivery nor later: every step that starts a turn is an
\* input delivered while status is 'active'.
C30_OnlyLiveInputStartsTurn ==
  [][AcceptedNow
       => /\ session.status = "active"
          /\ \/ \E q \in Questions : HandleTextSubmit(q)
             \/ \E q \in Utterances : RecOnResult(q)]_vars

\* C31: while a turn is in its responding phase no duckNoise(false) is
\* issued: the finally block of a turn runs only when no other turn is
\* between its duckNoise(true) and the end of its post-playback wait.
C31_NoUnduckWhileResponding ==
  [][\A t \in Turns :
       TurnEnds(t) => \A u \in Turns \ {t} : ~Responding(u)]_vars

UserEntriesOf(tr, t) ==
  {i \in 1..Len(tr) : tr[i].speaker = "user" /\ tr[i].turn = t}

\* C32: every accepted turn appends one user entry when it is accepted,
\* resolves its gate check once and never checks again, sets currentEntropy
\* to the value of that check, and appends at most one spirit entry, in the
\* step that ends it, after its user entry and with the value of its own
\* gate check as entropyReading.
C32_OneQueryOneExchange ==
  /\ [](\A t \in Turns :
          /\ Cardinality(UserEntriesOf(session.transcript, t)) <= 1
          /\ Cardinality(SpiritEntriesOf(session.transcript, t)) <= 1
          /\ \A i \in UserEntriesOf(session.transcript, t),
                j \in SpiritEntriesOf(session.transcript, t) : i < j)
  /\ [][\A t \in Turns :
          /\ (turns[t].pc = "idle" /\ turns'[t].pc = "gate")
               => /\ session'.transcript # <<>>
                  /\ session'.transcript[Len(session'.transcript)]
                       = UserEntry(turns'[t].question, t)
                  /\ SpiritEntriesOf(session'.transcript, t) = {}
          /\ (turns[t].pc = "gate" /\ turns'[t].pc # "gate")
               => LET v == IF TurnEnds(t) THEN ended'.turn.value
                                          ELSE turns'[t].value
                  IN /\ v # NullEntropy
                     /\ session'.currentEntropy = v
          /\ turns[t].pc \notin {"idle", "gate"} => turns'[t].pc # "gate"
          /\ TurnEnds(t)
               => \A j \in SpiritEntriesOf(session'.transcript, t) :
                    session'.transcript[j].entropyReading = ended'.turn.value
          /\ ~TurnEnds(t)
               => Cardinality(SpiritEntriesOf(session'.transcript, t))
                    <= Cardinality(SpiritEntriesOf(session.transcript, t))]_vars

\* A turn was accepted, approved by the gate and voiced: its user entry is
\* followed by its spirit entry, which carries the reading of the turn.
C32_VoicedExchange ==
  /\ ended.t # 0
  /\ ended.turn.started
  /\ ended.turn.value >= PRESENCE_THRESHOLD
  /\ session.currentEntropy = ended.turn.value
  /\ \E i \in UserEntriesOf(session.transcript, ended.t) :
       /\ i < Len(session.transcript)
       /\ session.transcript[i + 1].speaker = "spirit"
       /\ session.transcript[i + 1].turn = ended.t
       /\ session.transcript[i + 1].entropyReading = ended.turn.value

\* The seven node references of the manager.
NodeRefs(m) ==
  {m.noiseNode, m.filterNode, m.lfoNode, m.lfoGainNode, m.noiseGainNode,
   m.masterGainNode, m.analyserNode}

\* C33: in every manager state, after any interleaving of initialize(),
\* startSession() and stopSession(): isRunning only if audioContext and
\* lfoNode are non-null, and the seven node references are all non-null when
\* audioContext is non-null and all null when it is null.
C33_NodesIffContext ==
  /\ agm.isRunning => agm.audioContext # Null /\ agm.lfoNode # Null
  /\ agm.audioContext # Null => Null \notin NodeRefs(agm)
  /\ agm.audioContext = Null => NodeRefs(agm) = {Null}
  /\ agm.audioContext # Null => NodeRefs(agm) = {agm.audioContext}

\* A second graph was built after a stopSession() and its startSession()
\* awaits resume(): all nodes exist, the manager is not running yet.
C33_SecondGraphAwaitsResume ==
  /\ ~agm.isRunning
  /\ agm.audioContext # Null
  /\ Null \notin NodeRefs(agm)
  /\ \E s \in Starts : starts[s].pc = "resume" /\ starts[s].ctx = agm.audioContext
  /\ \E c \in Contexts : webaudio[c].state = "closed"

\* C34: duckNoise() and setNoiseVolume() called while the manager holds no
\* graph return normally and change nothing: no field of the manager, no
\* context, no node, no pending startSession().
C34_NoGraphNoEffect ==
  [][((\/ \E b \in BOOLEAN : MgrDuckNoise(b)
       \/ \E v \in Volumes : MgrSetNoiseVolume(v))
      /\ agm.noiseGainNode = Null)
       => /\ agm' = agm
          /\ webaudio' = webaudio
          /\ starts' = starts]_vars

\* duckNoise() was called on a manager that never built a graph.
C34_DuckedWithoutGraph ==
  /\ duckCmd # "none"
  /\ agm = ManagerInit
  /\ \A c \in Contexts : webaudio[c].state = "none"

IsPrefix(a, b) == Len(a) <= Len(b) /\ SubSeq(b, 1, Len(a)) = a

\* C35: between a handleStart() and the next one the transcript changes only
\* by appending: in every step that is not a completed handleStart() the
\* transcript before is a prefix of the transcript after.
C35_TranscriptAppendOnly ==
  [][~StartSucceeds
       => IsPrefix(session.transcript, session'.transcript)]_vars

\* Two exchanges of one session stand in the transcript.
C35_TwoExchanges ==
  /\ session.status = "active"
  /\ Len(session.transcript) = 4
  /\ session.transcript[1].turn = session.transcript[2].turn
  /\ session.transcript[3].turn = session.transcript[4].turn
  /\ session.transcript[1].turn # session.transcript[3].turn
  /\ \A c \in Contexts : webaudio[c].state # "closed"

\* C36: in every transcript the timestamp of each entry is strictly greater
\* than the timestamp of the entry before it.
C36_TimestampsStrictlyIncrease ==
  \A i \in 2..Len(session.transcript) :
    session.transcript[i].timestamp > session.transcript[i - 1].timestamp

\* C37: the entries of a transcript have pairwise distinct identifiers.
C37_IdsDistinct ==
  \A i, j \in 1..Len(session.transcript) :
    i # j => session.transcript[i].id # session.transcript[j].id

\* C38: for a buffer of duration d applyGhostEffects() returns a source that
\* has not been started and the duration d / 0.85 (here to the millisecond
\* below); for the 2-second silent buffer that is 2 / 0.85 = 2.352... s.
C38_DurationIsBufferOverRate ==
  call.fn = "applyGhostEffects"
    => /\ ~call.started
       /\ call.duration * 85 <= call.ms * 100
       /\ call.ms * 100 < (call.duration + 1) * 85
       /\ call.ms = 2000 => call.duration = 2352

\* The effects chain was applied to the 2-second silent buffer.
C38_SilentBufferScaled ==
  /\ call.fn = "applyGhostEffects"
  /\ call.ms = SILENCE_SECONDS * 1000
  /\ call.duration = 2352

\* C39: when the chat request fails generateResponse() resolves to one of
\* the fallback strings, and every such string matches
\* /veil|gears|steam|cold|machine/i.
C39_FallbackMatchesPattern ==
  (call.fn = "generateResponse" /\ ~call.chat.ok)
    => /\ call.text \in FallbackStrings
       /\ MatchesFallbackPattern(call.text)

====
